---- MODULE Spec2Model ----
(***************************************************************************)
(* NitroIDB: the adaptive bulk-write engine (table/bulk.ts) and the        *)
(* transaction manager (transaction/transaction.ts) as state machines.     *)
(*                                                                         *)
(* JavaScript runs every piece of code between two suspension points       *)
(* (await, event dispatch, timer) to completion, and runs a promise's      *)
(* continuation before the next event or timer task.  One action of this   *)
(* module is therefore one such run-to-completion step.  The storage       *)
(* engine (IndexedDB) is the environment: which request succeeds or fails, *)
(* which transaction event fires and when a timer fires are its choices.   *)
(***************************************************************************)
EXTENDS Integers, Sequences, FiniteSets, TLC

VARIABLES
    opts,   \* the input of a bulkAdd / bulkDelete call
    bulk,   \* the locals of the bulkAdd / bulkDelete call
    wb,     \* the closure of the batch attempt in flight (writeBatch / deleteBatch)
    obs,    \* what the run did that a caller or a mock can observe
    ex,     \* the closure of one executeWithTimeout call
    co,     \* the locals of one TransactionManager.execute call
    runs,   \* two bulk calls in flight at once: the locals of each
    kv,     \* a KVStore, its object store and its request in flight
    db      \* a Database, the stored database and its open request

bulkVars == <<opts, bulk, wb, obs>>
txVars == <<ex, co>>
libVars == <<runs, kv, db>>
vars == <<opts, bulk, wb, obs, ex, co, runs, kv, db>>

----------------------------------------------------------------------------
(* Bounds of the model *)

\* longest input of a run with a small batch size
SmallItems == 3
\* longest input of a run with a batch size above the minimum
MaxItems == 12
\* largest explicit `retries` option
MaxRetriesOpt == 1
\* keys of a delete input that may be null: those at indices below NullSpan
NullSpan == 2
\* requests of one batch that the engine may complete in any order and with
\* either outcome: those at batch positions below FreeSpan; the requests after
\* them complete in the order they were issued, successfully
FreeSpan == 2

\* initial batch sizes (options.batchSize ?? quirks.recommendedBatchSize)
BatchSizes == {1, 2, 3, 11}

(* Program constants *)
MinBatchSize == 10
GrowStep == 10
RetryOnFailRetries == 3

----------------------------------------------------------------------------
(* Helpers *)

Min(a, b) == IF a < b THEN a ELSE b
Max(a, b) == IF a > b THEN a ELSE b

\* the ascending sequence of the members of a finite set of integers
RECURSIVE SortedSeq(_)
SortedSeq(S) ==
    IF S = {} THEN <<>>
    ELSE LET m == CHOOSE x \in S : \A y \in S : x <= y
         IN <<m>> \o SortedSeq(S \ {m})

\* s with k added to each element
Shifted(s, k) == [x \in 1..Len(s) |-> s[x] + k]

\* <<a, a+1, ..., a+len-1>>
Range(a, len) == [x \in 1..len |-> a + x - 1]

----------------------------------------------------------------------------
(* bulkAdd / bulkDelete options *)

\* const maxRetries = options.retries ?? (options.retryOnFail ? 3 : 0)
\* (hasRetries is FALSE when options.retries is undefined)
MaxRetriesOf(o) ==
    IF o.hasRetries THEN o.retries
    ELSE IF o.retryOnFail THEN RetryOnFailRetries ELSE 0

RetryOpts ==
    [hasRetries : {TRUE}, retries : 0..MaxRetriesOpt, retryOnFail : {FALSE}]
      \cup [hasRetries : {FALSE}, retries : {0}, retryOnFail : BOOLEAN]

Lengths(b) == IF b > MinBatchSize THEN (MaxItems - 1)..MaxItems ELSE 0..SmallItems

BulkInputs ==
    { [op |-> op, n |-> n, nullKeys |-> nk, batchSize |-> b,
       hasRetries |-> r.hasRetries, retries |-> r.retries, retryOnFail |-> r.retryOnFail, progress |-> p] :
        op \in {"add", "delete"}, b \in BatchSizes, n \in 0..MaxItems,
        nk \in SUBSET (0..(NullSpan - 1)), r \in RetryOpts, p \in BOOLEAN }

ValidBulkInput(o) ==
    /\ o.n \in Lengths(o.batchSize)
    /\ \A k \in o.nullKeys : k < o.n
    /\ (o.op = "add" => o.nullKeys = {})

----------------------------------------------------------------------------
(* One batch attempt: the promise built by writeBatch / deleteBatch *)

NoBatch ==
    [open |-> FALSE, len |-> 0, timer |-> FALSE, transactionCompleted |-> FALSE,
     completed |-> 0, hasError |-> FALSE,
     success |-> 0, failed |-> 0, failedIndices |-> <<>>,
     req |-> <<>>, promise |-> "none", reason |-> "none",
     resolveCalls |-> 0, rejectCalls |-> 0, abortCalls |-> 0,
     txError |-> FALSE, txAbort |-> FALSE, tx |-> "none"]

\* tx is the state of the attempt's transaction in the storage engine:
\* "active", "aborting" (abort() was called or a request failed: the pending
\* requests fail, then abort fires), "committed" or "aborted"

\* resolve(results) / reject(error) of the attempt's promise: only the first
\* call settles it
Resolve(w) ==
    [w EXCEPT !.resolveCalls = @ + 1,
              !.promise = IF @ = "pending" THEN "resolved" ELSE @]

Reject(w, why) ==
    [w EXCEPT !.rejectCalls = @ + 1,
              !.promise = IF @ = "pending" THEN "rejected" ELSE @,
              !.reason = IF w.promise = "pending" THEN why ELSE @]

\* if (timeoutId) clearTimeout(timeoutId); transactionCompleted = true; resolve(results)
Finish(w) == Resolve([w EXCEPT !.timer = FALSE, !.transactionCompleted = TRUE])

\* the promise executor of writeBatch: transaction opened, timer armed, one
\* add request issued per record
WriteBatchStart(len) ==
    [NoBatch EXCEPT !.open = TRUE, !.len = len, !.timer = TRUE,
                    !.req = [j \in 1..len |-> "pending"],
                    !.promise = "pending", !.tx = "active"]

\* (mutant of DeleteBatchStart: an invalid key sets hasError like a failed
\* request)
DeleteBatchStartNullIsError(len, nulls) ==
    LET k == Cardinality(nulls)
        w == [NoBatch EXCEPT !.open = TRUE, !.len = len, !.timer = TRUE,
                  !.req = [j \in 1..len |-> IF (j - 1) \in nulls THEN "null"
                                             ELSE "pending"],
                  !.failed = k, !.failedIndices = SortedSeq(nulls),
                  !.hasError = k > 0,
                  !.completed = k, !.promise = "pending", !.tx = "active"]
    IN IF k = len THEN Finish(w) ELSE w

\* the promise executor of deleteBatch: a null/undefined key is counted as
\* failed at its index and never reaches store.delete; the loop resolves at
\* once if it has then completed every key
DeleteBatchStart(len, nulls) ==
    LET k == Cardinality(nulls)
        w == [NoBatch EXCEPT !.open = TRUE, !.len = len, !.timer = TRUE,
                  !.req = [j \in 1..len |-> IF (j - 1) \in nulls THEN "null"
                                             ELSE "pending"],
                  !.failed = k, !.failedIndices = SortedSeq(nulls),
                  !.completed = k, !.promise = "pending", !.tx = "active"]
    IN IF k = len THEN Finish(w) ELSE w

\* (mutant of OnRequestSuccess: the batch resolves when the request issued
\* last succeeds, not when the count of completed requests reaches the length)
OnRequestSuccessLastIssued(w, j) ==
    LET w1 == [w EXCEPT !.req[j + 1] = "ok", !.success = @ + 1,
                        !.completed = @ + 1]
    IN IF j = w1.len - 1 /\ ~w1.hasError THEN Finish(w1) ELSE w1

\* request.onsuccess of the request at batch position j (0-based)
OnRequestSuccess(w, j) ==
    LET w1 == [w EXCEPT !.req[j + 1] = "ok", !.success = @ + 1,
                        !.completed = @ + 1]
    IN IF w1.completed = w1.len /\ ~w1.hasError THEN Finish(w1) ELSE w1

\* (mutant of OnRequestError: the failure is not recorded)
OnRequestErrorUncounted(w, j) ==
    LET w1 == [w EXCEPT !.hasError = TRUE, !.req[j + 1] = "err",
                        !.completed = @ + 1]
    IN IF w1.completed = w1.len THEN Finish(w1) ELSE w1

\* request.onerror of the request at batch position j (0-based)
OnRequestError(w, j) ==
    LET w0 == IF ~w.hasError
              THEN [w EXCEPT !.hasError = TRUE, !.failed = @ + 1,
                             !.failedIndices = Append(@, j)]
              ELSE w
        w1 == [w0 EXCEPT !.req[j + 1] = "err", !.completed = @ + 1]
    IN IF w1.completed = w1.len THEN Finish(w1) ELSE w1

\* (mutant of OnTransactionError: the timer is cleared and nothing is
\* rejected)
OnTransactionErrorSilent(w) == [w EXCEPT !.timer = FALSE, !.txError = TRUE]

\* transaction.onerror
OnTransactionError(w) ==
    LET w1 == [w EXCEPT !.timer = FALSE, !.txError = TRUE]
    IN IF ~w1.transactionCompleted
       THEN Reject([w1 EXCEPT !.transactionCompleted = TRUE], "aborted")
       ELSE w1

\* transaction.onabort
OnTransactionAbort(w) ==
    LET w1 == [w EXCEPT !.timer = FALSE, !.txAbort = TRUE]
    IN IF ~w1.transactionCompleted
       THEN Reject([w1 EXCEPT !.transactionCompleted = TRUE], "aborted")
       ELSE w1

\* the setTimeout callback
OnBatchTimeout(w) ==
    LET w1 == [w EXCEPT !.timer = FALSE]
    IN IF ~w1.transactionCompleted
       THEN LET w2 == [w1 EXCEPT !.transactionCompleted = TRUE]
            IN IF w.tx # "active"
               THEN \* transaction.abort() throws an InvalidStateError out of
                    \* the timer callback: reject is not reached
                    w2
               ELSE Reject([w2 EXCEPT !.abortCalls = @ + 1, !.tx = "aborting"],
                           "timeout")
       ELSE w1

----------------------------------------------------------------------------
(* bulkAdd / bulkDelete *)

NoResult == [returned |-> FALSE, success |-> 0, failed |-> 0, failedIndices |-> <<>>]

BulkIdle ==
    [pc |-> "call", i |-> 0, batchStart |-> 0, batchLen |-> 0,
     currentBatchSize |-> 0, successCount |-> 0, failedCount |-> 0,
     failedIndices |-> <<>>, attempt |-> 0, batchSuccess |-> FALSE,
     result |-> NoResult]

\* what a caller or the environment can observe of a run
NoObs ==
    [progressCalls |-> <<>>, batches |-> <<>>, outcomes |-> <<>>,
     txOpened |-> 0, getDBCalls |-> 0, delays |-> <<>>]

\* if (records.length === 0) return { success: 0, failed: 0 }
EmptyReturn(b, ob) ==
    [bulk |-> [b EXCEPT !.pc = "done",
                        !.result = [returned |-> TRUE, success |-> 0,
                                    failed |-> 0, failedIndices |-> <<>>]],
     obs |-> ob]

\* return { success: successCount, failed: failedCount, failedIndices, ... }
Return(b, ob) ==
    [bulk |-> [b EXCEPT !.pc = "done",
                        !.result = [returned |-> TRUE, success |-> b.successCount,
                                    failed |-> b.failedCount,
                                    failedIndices |-> b.failedIndices]],
     obs |-> ob]

\* const batch = records.slice(i, i + currentBatchSize): its length
SliceLen(i, size, n) == Min(i + size, n) - i

\* the for statement's update: i += currentBatchSize
ForUpdate(b) == b.i + b.currentBatchSize

\* currentBatchSize after a batch that resolved
Grow(size, attempt, batchSize) ==
    IF attempt = 0 /\ size < batchSize * 2
    THEN Min(size + GrowStep, batchSize * 2)
    ELSE size

\* Math.max(Math.floor(currentBatchSize * 0.5), 10)
ShrinkAfterFailure(size) == Max(size \div 2, MinBatchSize)

\* Math.max(Math.floor(currentBatchSize * 0.7), 10)
ShrinkOnRetry(size) == Max((size * 7) \div 10, MinBatchSize)

\* the while statement: another attempt of the batch (up to the await of
\* getDB in writeBatch / deleteBatch), or the end of the loop body (progress),
\* the for update and the next slice, or the return
RECURSIVE WhileStep(_, _, _)
WhileStep(b, ob, o) ==
    IF b.attempt <= MaxRetriesOf(o) /\ ~b.batchSuccess
    THEN [bulk |-> [b EXCEPT !.pc = "getDB"],
          obs |-> [ob EXCEPT !.getDBCalls = @ + 1]]
    ELSE LET ob1 == IF o.progress
                    THEN [ob EXCEPT !.progressCalls =
                              Append(@, <<b.successCount + b.failedCount, o.n>>)]
                    ELSE ob
             b1 == [b EXCEPT !.i = ForUpdate(b)]
         IN IF b1.i < o.n
            THEN LET len == SliceLen(b1.i, b1.currentBatchSize, o.n)
                     b2 == [b1 EXCEPT !.batchStart = b1.i, !.batchLen = len,
                                      !.attempt = 0, !.batchSuccess = FALSE]
                 IN WhileStep(b2, [ob1 EXCEPT !.batches =
                                      Append(@, <<b1.i, len>>)], o)
            ELSE Return(b1, ob1)

\* (mutant of BulkStart: the empty input is not short-circuited and the
\* first batch is attempted like any other)
BulkStartNoShortCircuit(o) ==
    LET len == SliceLen(0, o.batchSize, o.n)
        b == [BulkIdle EXCEPT !.currentBatchSize = o.batchSize, !.batchLen = len]
    IN WhileStep(b, [NoObs EXCEPT !.batches = <<<<0, len>>>>], o)

\* bulkAdd / bulkDelete from the call to the first await
BulkStart(o) ==
    IF o.n = 0
    THEN EmptyReturn(BulkIdle, NoObs)
    ELSE LET len == SliceLen(0, o.batchSize, o.n)
             b == [BulkIdle EXCEPT !.currentBatchSize = o.batchSize,
                                   !.batchLen = len]
         IN WhileStep(b, [NoObs EXCEPT !.batches = <<<<0, len>>>>], o)

\* the continuation of `await this.writeBatch(batch, timeout)` when it resolved
AfterResolved(b, ob, w, o) ==
    LET b1 == [b EXCEPT !.successCount = @ + w.success,
                        !.failedCount = @ + w.failed,
                        !.failedIndices = @ \o Shifted(w.failedIndices, b.batchStart),
                        !.batchSuccess = TRUE,
                        !.currentBatchSize =
                            IF o.op = "add" THEN Grow(@, b.attempt, o.batchSize)
                            ELSE @]
    IN WhileStep(b1, [ob EXCEPT !.outcomes = Append(@, "resolved")], o)

\* (mutant of RetryDelayFactor: the exponent is the number of the retry)
RetryDelayFactorUnshifted(attempt) == 2 ^ attempt

\* const delay = retryDelay * Math.pow(2, attempt - 1), in units of retryDelay
RetryDelayFactor(attempt) == 2 ^ (attempt - 1)

\* (mutant of AfterRejected: the retry is started at once, before the sleep)
AfterRejectedRetriesAtOnce(b, ob, o) ==
    LET a == b.attempt + 1
    IN IF a > MaxRetriesOf(o)
       THEN WhileStep([b EXCEPT !.attempt = a,
                                !.failedCount = @ + b.batchLen,
                                !.failedIndices = @ \o Range(b.batchStart, b.batchLen),
                                !.currentBatchSize = ShrinkAfterFailure(@)],
                      [ob EXCEPT !.outcomes = Append(@, "failed")], o)
       ELSE [bulk |-> [b EXCEPT !.attempt = a, !.pc = "sleep"],
             obs |-> [ob EXCEPT !.delays = Append(@, RetryDelayFactor(a)),
                                !.getDBCalls = @ + 1]]

\* (mutant of AfterRejected: with no retry left the error is thrown to the
\* caller instead of being recorded)
AfterRejectedThrows(b, ob, o) ==
    LET a == b.attempt + 1
    IN IF a > MaxRetriesOf(o)
       THEN [bulk |-> [b EXCEPT !.attempt = a, !.pc = "done"], obs |-> ob]
       ELSE [bulk |-> [b EXCEPT !.attempt = a, !.pc = "sleep"],
             obs |-> [ob EXCEPT !.delays = Append(@, 2 ^ (a - 1))]]

\* the catch clause
AfterRejected(b, ob, o) ==
    LET a == b.attempt + 1
    IN IF a > MaxRetriesOf(o)
       THEN WhileStep([b EXCEPT !.attempt = a,
                                !.failedCount = @ + b.batchLen,
                                !.failedIndices = @ \o Range(b.batchStart, b.batchLen),
                                !.currentBatchSize = ShrinkAfterFailure(@)],
                      [ob EXCEPT !.outcomes = Append(@, "failed")], o)
       ELSE \* await this.sleep(delay)
            [bulk |-> [b EXCEPT !.attempt = a, !.pc = "sleep"],
             obs |-> [ob EXCEPT !.delays = Append(@, RetryDelayFactor(a))]]

\* (mutant of AfterSleep: the batch is sliced again with the shrunk size)
AfterSleepSlicesAgain(b, ob, o) ==
    LET size == IF b.attempt > 1 THEN ShrinkOnRetry(b.currentBatchSize)
                ELSE b.currentBatchSize
    IN WhileStep([b EXCEPT !.currentBatchSize = size,
                           !.batchLen = SliceLen(b.i, size, o.n)], ob, o)

\* (mutant of AfterSleep: progress is also reported before a retry)
AfterSleepReportsProgress(b, ob, o) ==
    WhileStep([b EXCEPT !.currentBatchSize =
                   IF b.attempt > 1 THEN ShrinkOnRetry(@) ELSE @],
              IF o.progress
              THEN [ob EXCEPT !.progressCalls =
                        Append(@, <<b.successCount + b.failedCount, o.n>>)]
              ELSE ob, o)

\* the rest of the catch clause after the sleep
AfterSleep(b, ob, o) ==
    WhileStep([b EXCEPT !.currentBatchSize =
                   IF b.attempt > 1 THEN ShrinkOnRetry(@) ELSE @], ob, o)

\* the keys of the current batch that are null, as batch positions (0-based)
BatchNulls(b, o) ==
    { k - b.batchStart : k \in { x \in o.nullKeys :
                                   x >= b.batchStart /\ x < b.batchStart + b.batchLen } }

----------------------------------------------------------------------------
(* TransactionManager.executeWithTimeout: one timed transaction *)

\* keywords that isRetryableError looks for in an error message
EngineMessages == {{}, {"network"}, {"constraint"}, {"network", "unique"}}

\* the work callback of one attempt: it returns a value (sync), returns a
\* promise (async) or throws, an Error or (nonError) some other value; it may
\* call context.abort() before that
Callbacks ==
    { cb \in [kind : {"sync", "async", "throw"}, aborts : BOOLEAN,
              nonError : BOOLEAN] : cb.nonError => cb.kind = "throw" }

NoError == [type |-> "none", msg |-> {}]
\* new TransactionTimeoutError(timeout, ...): "Transaction timed out after <n>ms"
TimeoutError == [type |-> "timeout", msg |-> {}]
\* new TransactionAbortedError(reason, ...): "Transaction was aborted: <reason>"
AbortedError(msg) == [type |-> "aborted", msg |-> msg]
\* the Error the callback threw or its promise rejected with
CallbackError == [type |-> "callback", msg |-> {}]
\* a value that is not an Error, thrown by the callback or rejecting its promise
ThrownValue == [type |-> "value", msg |-> {}]
\* new Error(String(value))
WrappedError == [type |-> "wrapped", msg |-> {}]
\* error instanceof Error ? error : new Error(String(error))
Wrap(err) == IF err = ThrownValue THEN WrappedError ELSE err
\* the InvalidStateError of IDBTransaction.abort() on a finished transaction
InvalidStateError == [type |-> "invalidState", msg |-> {}]
\* the error getDB() rejected with
ConnectionError == [type |-> "connection", msg |-> {}]

ExIdle ==
    [pc |-> "idle", kind |-> "none", timer |-> FALSE,
     transactionCompleted |-> FALSE, promiseResolved |-> FALSE,
     transactionResolved |-> FALSE, cbPromise |-> "none",
     oncomplete |-> "none", tx |-> "none", txError |-> FALSE,
     outcome |-> "pending", error |-> NoError,
     resolveCalls |-> 0, rejectCalls |-> 0, abortCalls |-> 0,
     callbackCalls |-> 0, timerFired |-> FALSE, thrown |-> NoError,
     explicitAbort |-> FALSE]

\* resolve(value) / reject(error): only the first call settles the promise
ExResolve(e) ==
    [e EXCEPT !.resolveCalls = @ + 1,
              !.outcome = IF @ = "pending" THEN "resolved" ELSE @]

ExReject(e, err) ==
    [e EXCEPT !.rejectCalls = @ + 1,
              !.outcome = IF @ = "pending" THEN "rejected" ELSE @,
              !.error = IF e.outcome = "pending" THEN err ELSE @]

\* transaction.abort() succeeds on an active transaction and throws an
\* InvalidStateError on one that is already finished (committed or aborted)
AbortThrows(e) == e.tx # "active"
Aborted(e) == [e EXCEPT !.tx = "aborting", !.abortCalls = @ + 1]

\* the setTimeout callback
OnTimeout(e) ==
    LET e1 == [e EXCEPT !.timer = FALSE, !.timerFired = TRUE]
    IN IF ~e1.transactionCompleted
       THEN LET e2 == [e1 EXCEPT !.transactionCompleted = TRUE]
            IN IF AbortThrows(e2) THEN e2
               ELSE ExReject(Aborted(e2), TimeoutError)
       ELSE e1

\* handleComplete
HandleComplete(e) ==
    LET e1 == [e EXCEPT !.timer = FALSE]
    IN IF ~e1.transactionCompleted
       THEN [e1 EXCEPT !.transactionCompleted = TRUE]
       ELSE e1

\* handleError
HandleError(e, msg) ==
    LET e1 == [e EXCEPT !.timer = FALSE]
    IN IF ~e1.transactionCompleted
       THEN ExReject([e1 EXCEPT !.transactionCompleted = TRUE], AbortedError(msg))
       ELSE e1

\* handleAbort
HandleAbort(e) ==
    LET e1 == [e EXCEPT !.timer = FALSE]
    IN IF ~e1.transactionCompleted
       THEN ExReject([e1 EXCEPT !.transactionCompleted = TRUE], AbortedError({}))
       ELSE e1

\* checkComplete
CheckComplete(e) ==
    IF e.promiseResolved /\ e.transactionResolved /\ ~e.transactionCompleted
    THEN ExResolve([e EXCEPT !.transactionCompleted = TRUE, !.timer = FALSE])
    ELSE e

\* result.then((value) => ...)
OnCallbackResolved(e) ==
    IF ~e.transactionCompleted
    THEN CheckComplete([e EXCEPT !.promiseResolved = TRUE])
    ELSE e

\* result.then(...).catch((error) => ...)
OnCallbackRejected(e, error) ==
    IF ~e.transactionCompleted
    THEN LET e1 == [e EXCEPT !.transactionCompleted = TRUE, !.timer = FALSE]
         IN IF AbortThrows(e1) THEN e1
            ELSE ExReject(Aborted(e1), error)
    ELSE e

\* transaction.oncomplete, as the callback's branch installed it
OnComplete(e) ==
    IF e.oncomplete = "sync"
    THEN ExResolve([e EXCEPT !.timer = FALSE, !.transactionCompleted = TRUE])
    ELSE IF e.oncomplete = "async"
    THEN LET e1 == HandleComplete(e)
         IN IF ~e1.transactionCompleted
            THEN CheckComplete([e1 EXCEPT !.transactionResolved = TRUE])
            ELSE e1
    ELSE HandleComplete(e)

\* (mutant of ExecutorStart: a synchronous callback's value is resolved at
\* once, without waiting for the transaction to complete)
ExecutorStartResolvesAtOnce(cb) ==
    LET e0 == [ExIdle EXCEPT !.pc = "open", !.kind = cb.kind, !.timer = TRUE,
                             !.tx = "active", !.oncomplete = "handleComplete",
                             !.callbackCalls = 1]
        \* context.abort() inside the callback
        e1 == IF cb.aborts THEN [Aborted(e0) EXCEPT !.explicitAbort = TRUE]
              ELSE e0
    IN IF cb.kind = "throw"
       THEN \* catch (error): transactionCompleted is still false here
            LET error == IF cb.nonError THEN ThrownValue ELSE CallbackError
                e2 == [e1 EXCEPT !.transactionCompleted = TRUE, !.timer = FALSE,
                                 !.thrown = error]
            IN IF AbortThrows(e2)
               THEN \* abort() throws out of the executor: the promise
                    \* constructor rejects with that error
                    ExReject(e2, InvalidStateError)
               ELSE ExReject(Aborted(e2), Wrap(error))
       ELSE IF cb.kind = "async"
       THEN [e1 EXCEPT !.cbPromise = "pending", !.oncomplete = "async"]
       ELSE ExResolve([e1 EXCEPT !.oncomplete = "sync"])

\* the promise executor: the transaction is opened, the timer armed, the
\* handlers installed and the callback called
ExecutorStart(cb) ==
    LET e0 == [ExIdle EXCEPT !.pc = "open", !.kind = cb.kind, !.timer = TRUE,
                             !.tx = "active", !.oncomplete = "handleComplete",
                             !.callbackCalls = 1]
        \* context.abort() inside the callback
        e1 == IF cb.aborts THEN [Aborted(e0) EXCEPT !.explicitAbort = TRUE]
              ELSE e0
    IN IF cb.kind = "throw"
       THEN \* catch (error): transactionCompleted is still false here
            LET error == IF cb.nonError THEN ThrownValue ELSE CallbackError
                e2 == [e1 EXCEPT !.transactionCompleted = TRUE, !.timer = FALSE,
                                 !.thrown = error]
            IN IF AbortThrows(e2)
               THEN \* abort() throws out of the executor: the promise
                    \* constructor rejects with that error
                    ExReject(e2, InvalidStateError)
               ELSE ExReject(Aborted(e2), Wrap(error))
       ELSE IF cb.kind = "async"
       THEN [e1 EXCEPT !.cbPromise = "pending", !.oncomplete = "async"]
       ELSE [e1 EXCEPT !.oncomplete = "sync"]

----------------------------------------------------------------------------
(* TransactionManager.execute: retries around executeWithTimeout *)

CoIdle ==
    [pc |-> "idle", maxRetries |-> 0, attempt |-> 0, lastError |-> NoError,
     invocations |-> 0, callbackCalls |-> 0, delays |-> <<>>]

\* isRetryableError
IsRetryableError(err) ==
    IF "network" \in err.msg \/ "timeout" \in err.msg THEN TRUE
    ELSE IF "constraint" \in err.msg \/ "duplicate" \in err.msg
            \/ "unique" \in err.msg THEN FALSE
    ELSE err.type = "aborted"

\* (mutant of Surfaces: the bound on the attempts is off by one)
SurfacesOffByOne(err, attempt, maxRetries) ==
    IF err.type \in {"timeout", "aborted"}
    THEN ~IsRetryableError(err) \/ attempt > maxRetries
    ELSE attempt > maxRetries

\* (mutant of Surfaces: every error is classified before it is retried)
SurfacesClassifiesAll(err, attempt, maxRetries) ==
    ~IsRetryableError(err) \/ attempt >= maxRetries

\* (mutant of BackoffFactor: the exponent is the number of the retry)
BackoffFactorOfRetry(attempt) == 2 ^ (attempt + 1)

\* const delay = retryDelay * Math.pow(2, attempt), in units of retryDelay
BackoffFactor(attempt) == 2 ^ attempt

\* (mutant of LastErrorOf: the error of the first failed attempt is kept)
LastErrorOfFirst(lastError, error) ==
    IF lastError = NoError THEN Wrap(error) ELSE lastError

\* lastError = error instanceof Error ? error : new Error(String(error))
LastErrorOf(lastError, error) == Wrap(error)

\* the catch clause of execute: TRUE when lastError is thrown to the caller
Surfaces(err, attempt, maxRetries) ==
    IF err.type \in {"timeout", "aborted"}
    THEN ~IsRetryableError(err) \/ attempt >= maxRetries
    ELSE attempt >= maxRetries

\* while (attempt <= maxRetries): the next call of executeWithTimeout
CallAttempt(c) == [c EXCEPT !.pc = "attempt", !.invocations = @ + 1]

----------------------------------------------------------------------------
(* KVStore (kv/kv-store.ts) *)

\* keys and values the caller uses, and the namespaces a store may have;
\* a string is the sequence of its parts, so that a prefix is computed
\* (the key "n:a" of one store is the full key of "a" in the namespace "n")
KvKeys == {<<"a">>, <<"n", ":", "a">>}
KvValues == {"v1", "v2"}
KvPrefixes == {<<>>, <<"n">>, <<"m">>}

\* JavaScript values a get can return
Undefined == [kind |-> "undefined", key |-> <<>>, value |-> ""]
Plain(v) == [kind |-> "plain", key |-> <<>>, value |-> v]
\* the object { key: fullKey, value }
Record(k, v) == [kind |-> "record", key |-> k, value |-> v]

\* getFullKey
GetFullKey(prefix, key) ==
    IF prefix # <<>> THEN prefix \o <<":">> \o key ELSE key

FullKeys == { GetFullKey(p, k) : p \in KvPrefixes, k \in KvKeys }

\* String.prototype.startsWith
StartsWith(str, prefix) ==
    /\ Len(str) >= Len(prefix)
    /\ SubSeq(str, 1, Len(prefix)) = prefix

\* req: the request in flight; last: the outcome of the call that completed
\* last, until the next call
KvNoOp == [op |-> "none", prefix |-> <<>>, key |-> <<>>, value |-> ""]
KvNoLast ==
    [op |-> "none", prefix |-> <<>>, key |-> <<>>, ok |-> FALSE,
     result |-> Undefined]

\* store: the object store's record under each full key (Undefined: none);
\* written: per full key, what the last completed set, delete or clear of
\* it left there (Plain(v) after a set of value v, Undefined otherwise)
KvIdle ==
    [store |-> [k \in FullKeys |-> Undefined],
     written |-> [f \in FullKeys |-> Undefined],
     pc |-> "idle", req |-> KvNoOp, last |-> KvNoLast]

\* (mutant of StoreClear: a namespaced store clears the whole object store)
StoreClearAll(store, namespacePrefix) == [k \in DOMAIN store |-> Undefined]

\* clear(): every record whose key starts with `${namespacePrefix}:` is
\* deleted through a cursor, or store.clear() without a namespace
StoreClear(store, namespacePrefix) ==
    IF namespacePrefix # <<>>
    THEN [k \in DOMAIN store |->
            IF store[k] # Undefined /\ StartsWith(store[k].key, namespacePrefix \o <<":">>)
            THEN Undefined ELSE store[k]]
    ELSE [k \in DOMAIN store |-> Undefined]

\* request.onsuccess of the request in flight: resolve(request.result) for
\* a get, resolve() for the others
KvOnSuccess(k) ==
    LET fullKey == GetFullKey(k.req.prefix, k.req.key)
        done(result) == [op |-> k.req.op, prefix |-> k.req.prefix,
                         key |-> k.req.key, ok |-> TRUE, result |-> result]
    IN IF k.req.op = "get"
       THEN \* store.get(fullKey)
            [k EXCEPT !.pc = "idle", !.req = KvNoOp,
                      !.last = done(k.store[fullKey])]
       ELSE IF k.req.op = "set"
       THEN \* store.put({ key: fullKey, value }), the key path being `key`
            [k EXCEPT !.pc = "idle", !.req = KvNoOp, !.last = done(Undefined),
                      !.store[fullKey] = Record(fullKey, k.req.value),
                      !.written[fullKey] = Plain(k.req.value)]
       ELSE IF k.req.op = "delete"
       THEN \* store.delete(fullKey)
            [k EXCEPT !.pc = "idle", !.req = KvNoOp, !.last = done(Undefined),
                      !.store[fullKey] = Undefined,
                      !.written[fullKey] = Undefined]
       ELSE [k EXCEPT !.pc = "idle", !.req = KvNoOp, !.last = done(Undefined),
                      !.store = StoreClear(@, k.req.prefix),
                      !.written = [f \in DOMAIN @ |->
                                     IF k.req.prefix = <<>>
                                        \/ StartsWith(f, k.req.prefix \o <<":">>)
                                     THEN Undefined ELSE @[f]]]

\* request.onerror of the request in flight: the promise rejects
KvOnError(k) ==
    [k EXCEPT !.pc = "idle", !.req = KvNoOp,
              !.last = [op |-> k.req.op, prefix |-> k.req.prefix,
                        key |-> k.req.key, ok |-> FALSE, result |-> Undefined]]

----------------------------------------------------------------------------
(* Database.open and its migrations (database/database.ts) *)

\* largest schema version
MaxVersion == 3

\* stored: the version of the database in the browser (0: it does not exist)
\* version, migrations: the options of the Database instance
\* throws: the registered migration that throws (0: none does)
\* ran: the migrations called during the upgrade of the current open
\* issued: the open requests in flight or succeeded since the instance was
\* made or closed; second: the open request of a second caller; handle:
\* the connection in this._db (0: null, 1 and 2: the result of the first
\* and of the second request)
DbIdle ==
    [stored |-> 0, version |-> 1, migrations |-> {}, throws |-> 0,
     pc |-> "idle", opened |-> FALSE, upgraded |-> FALSE, oldVersion |-> 0,
     ran |-> <<>>, outcome |-> "none", error |-> "none",
     issued |-> 0, second |-> "none", handle |-> 0]

\* the for statement of runMigrations, from `version` on
RECURSIVE MigrationLoop(_, _, _, _)
MigrationLoop(version, newVersion, migrations, throws) ==
    IF version > newVersion THEN [ran |-> <<>>, threw |-> FALSE]
    ELSE IF version \in migrations
    THEN IF version = throws
         THEN [ran |-> <<version>>, threw |-> TRUE]
         ELSE LET r == MigrationLoop(version + 1, newVersion, migrations, throws)
              IN [ran |-> <<version>> \o r.ran, threw |-> r.threw]
    ELSE MigrationLoop(version + 1, newVersion, migrations, throws)

\* runMigrations
RunMigrations(oldVersion, newVersion, migrations, throws) ==
    IF oldVersion = 0
    THEN [ran |-> <<>>, threw |-> FALSE]
    ELSE MigrationLoop(oldVersion + 1, newVersion, migrations, throws)

\* request.onupgradeneeded: the stores are created and the migrations run;
\* a throw rejects the promise of open() and leaves the upgrade transaction
\* running, so the database reaches the new version all the same
OnUpgradeNeeded(d) ==
    LET r == RunMigrations(d.stored, d.version, d.migrations, d.throws)
    IN [d EXCEPT !.pc = "upgraded", !.upgraded = TRUE, !.oldVersion = d.stored,
                 !.ran = r.ran, !.stored = d.version,
                 !.outcome = IF r.threw THEN "rejected" ELSE @,
                 !.error = IF r.threw THEN "migration" ELSE @]

\* request.onsuccess: this._db = request.result; resolve(this._db)
OnOpenSuccess(d) ==
    [d EXCEPT !.pc = "idle", !.opened = TRUE, !.handle = 1,
              !.outcome = IF @ = "pending" THEN "resolved" ELSE @]

\* request.onerror
OnOpenError(d) ==
    [d EXCEPT !.pc = "idle", !.issued = @ - 1,
              !.outcome = IF @ = "pending" THEN "rejected" ELSE @,
              !.error = IF d.outcome = "pending"
                        THEN (IF d.version < d.stored THEN "version"
                              ELSE "incompatibility")
                        ELSE @]

----------------------------------------------------------------------------
(* Two bulk calls in flight at once *)

\* no pair of calls is in flight
NoRuns == <<>>

LibUnused == runs = NoRuns /\ kv = KvIdle /\ db = DbIdle

\* no bulk run is in progress
NoOpts ==
    [op |-> "none", n |-> 0, nullKeys |-> {}, batchSize |-> 0,
     hasRetries |-> FALSE, retries |-> 0, retryOnFail |-> FALSE,
     progress |-> FALSE]

----------------------------------------------------------------------------
(* Actions of a bulk run *)

InitBulk ==
    /\ opts \in { o \in BulkInputs : ValidBulkInput(o) }
    /\ bulk = BulkIdle
    /\ wb = NoBatch
    /\ obs = NoObs
    /\ ex = ExIdle
    /\ co = CoIdle
    /\ LibUnused

BulkCall ==
    /\ bulk.pc = "call"
    /\ LET r == BulkStart(opts)
       IN bulk' = r.bulk /\ obs' = r.obs
    /\ UNCHANGED <<opts, wb, txVars, libVars>>

\* await this.db.getDB() resolved: the promise executor runs
GetDBResolved ==
    /\ bulk.pc = "getDB"
    /\ wb' = IF opts.op = "add" THEN WriteBatchStart(bulk.batchLen)
             ELSE DeleteBatchStart(bulk.batchLen, BatchNulls(bulk, opts))
    /\ bulk' = [bulk EXCEPT !.pc = "inflight"]
    /\ obs' = [obs EXCEPT !.txOpened = @ + 1]
    /\ UNCHANGED <<opts, txVars, libVars>>

\* await this.db.getDB() rejected: writeBatch rejects without a transaction
GetDBRejected ==
    /\ bulk.pc = "getDB"
    /\ wb' = [NoBatch EXCEPT !.promise = "rejected", !.reason = "connection"]
    /\ bulk' = [bulk EXCEPT !.pc = "inflight"]
    /\ UNCHANGED <<opts, obs, txVars, libVars>>

\* a continuation that is ready runs before the next event or timer
ContinuationReady == bulk.pc = "inflight" /\ wb.promise \in {"resolved", "rejected"}

BatchResolved ==
    /\ bulk.pc = "inflight" /\ wb.promise = "resolved"
    /\ LET r == AfterResolved(bulk, obs, wb, opts)
       IN bulk' = r.bulk /\ obs' = r.obs
    /\ wb' = NoBatch
    /\ UNCHANGED <<opts, txVars, libVars>>

BatchRejected ==
    /\ bulk.pc = "inflight" /\ wb.promise = "rejected"
    /\ LET r == AfterRejected(bulk, obs, opts)
       IN bulk' = r.bulk /\ obs' = r.obs
    /\ wb' = NoBatch
    /\ UNCHANGED <<opts, txVars, libVars>>

SleepDone ==
    /\ bulk.pc = "sleep"
    /\ LET r == AfterSleep(bulk, obs, opts)
       IN bulk' = r.bulk /\ obs' = r.obs
    /\ UNCHANGED <<opts, wb, txVars, libVars>>

\* a request's error event has been handled by request.onerror and is on its
\* way to transaction.onerror (error events bubble, and no handler of the
\* batch stops them); no other event is dispatched in between
Bubbling(w) ==
    /\ w.open /\ ~w.txError
    /\ \E j \in 1..w.len : w.req[j] = "err"

\* the storage engine may complete request j now
MayComplete(w, j) ==
    /\ j \in 0..(w.len - 1)
    /\ w.req[j + 1] = "pending"
    /\ (j >= FreeSpan => \A k \in 0..(j - 1) : w.req[k + 1] # "pending")

RequestSuccess ==
    /\ wb.open /\ ~ContinuationReady /\ ~Bubbling(wb)
    /\ \E j \in 0..(wb.len - 1) :
          /\ MayComplete(wb, j)
          /\ wb' = OnRequestSuccess(wb, j)
    /\ UNCHANGED <<opts, bulk, obs, txVars, libVars>>

RequestError ==
    /\ wb.open /\ ~ContinuationReady /\ ~Bubbling(wb)
    /\ \E j \in 0..(Min(wb.len, FreeSpan) - 1) :
          /\ MayComplete(wb, j)
          /\ wb' = [OnRequestError(wb, j) EXCEPT !.tx = "aborting"]
    /\ UNCHANGED <<opts, bulk, obs, txVars, libVars>>

\* the error event of a request reaches transaction.onerror
TransactionError ==
    /\ wb.open /\ ~ContinuationReady
    /\ Bubbling(wb)
    /\ wb' = OnTransactionError(wb)
    /\ UNCHANGED <<opts, bulk, obs, txVars, libVars>>

\* the engine aborts the transaction on its own and fires abort
TransactionAbort ==
    /\ wb.open /\ ~ContinuationReady /\ ~Bubbling(wb)
    /\ ~wb.txAbort
    /\ wb' = [OnTransactionAbort(wb) EXCEPT !.tx = "aborted"]
    /\ UNCHANGED <<opts, bulk, obs, txVars, libVars>>

BatchTimeout ==
    /\ wb.open /\ ~ContinuationReady /\ ~Bubbling(wb)
    /\ wb.timer
    /\ wb' = OnBatchTimeout(wb)
    /\ UNCHANGED <<opts, bulk, obs, txVars, libVars>>

NextBulk ==
    \/ BulkCall
    \/ GetDBResolved
    \/ GetDBRejected
    \/ BatchResolved
    \/ BatchRejected
    \/ SleepDone
    \/ RequestSuccess
    \/ RequestError
    \/ TransactionError
    \/ TransactionAbort
    \/ BatchTimeout

SpecBulk == InitBulk /\ [][NextBulk]_vars

\* the code of the run is executed when it can be (the call, the
\* continuations of its awaits, the end of a sleep); getDB settles; an
\* error event reaches the transaction; and an armed timer fires unless the
\* attempt settles before
BulkFairness ==
    /\ WF_vars(BulkCall \/ BatchResolved \/ BatchRejected \/ SleepDone)
    /\ WF_vars(GetDBResolved \/ GetDBRejected)
    /\ WF_vars(TransactionError)
    /\ WF_vars(BatchTimeout)

SpecBulkFair == InitBulk /\ [][NextBulk]_vars /\ BulkFairness

----------------------------------------------------------------------------
(* Actions of a transaction: executeWithTimeout alone, or under execute *)

\* largest `retries` option of execute
MaxTxRetries == 2

\* execute's continuation is ready and runs before the next event or timer
CoContinuationReady == co.pc = "attempt" /\ ex.outcome # "pending"

\* the transaction's handlers can be called
Live == ex.pc = "open" /\ ~CoContinuationReady

\* await this.db.getDB() resolved: the promise executor runs the callback
ExecGetDBResolved ==
    /\ ex.pc = "getDB"
    /\ \E cb \in Callbacks : ex' = ExecutorStart(cb)
    /\ co' = [co EXCEPT !.callbackCalls = @ + 1]
    /\ UNCHANGED <<bulkVars, libVars>>

\* await this.db.getDB() rejected: executeWithTimeout rejects with its error
ExecGetDBRejected ==
    /\ ex.pc = "getDB"
    /\ ex' = [ExIdle EXCEPT !.pc = "failed", !.outcome = "rejected",
                            !.error = ConnectionError]
    /\ UNCHANGED <<co, bulkVars, libVars>>

\* the engine commits the transaction and fires complete
TxComplete ==
    /\ Live /\ ex.tx = "active"
    /\ ex' = [OnComplete(ex) EXCEPT !.tx = "complete"]
    /\ UNCHANGED <<co, bulkVars, libVars>>

\* a request's error event bubbles to the transaction
TxErrorEvent ==
    /\ Live /\ ex.tx \in {"active", "aborting"} /\ ~ex.txError
    /\ \E msg \in EngineMessages :
          ex' = [HandleError(ex, msg) EXCEPT !.txError = TRUE]
    /\ UNCHANGED <<co, bulkVars, libVars>>

\* the engine aborts the transaction (on its own, or after abort()) and
\* fires abort
TxAbortEvent ==
    /\ Live /\ ex.tx \in {"active", "aborting"}
    /\ ex' = [HandleAbort(ex) EXCEPT !.tx = "aborted"]
    /\ UNCHANGED <<co, bulkVars, libVars>>

\* the timer fires after its delay; the abort event that an abort() call of
\* the callback has queued is dispatched before that
TimerFires ==
    /\ Live /\ ex.timer /\ ex.tx # "aborting"
    /\ ex' = OnTimeout(ex)
    /\ UNCHANGED <<co, bulkVars, libVars>>

CallbackResolves ==
    /\ Live /\ ex.cbPromise = "pending"
    /\ ex' = OnCallbackResolved([ex EXCEPT !.cbPromise = "resolved"])
    /\ UNCHANGED <<co, bulkVars, libVars>>

CallbackRejects ==
    /\ Live /\ ex.cbPromise = "pending"
    /\ \E error \in {CallbackError, ThrownValue} :
          ex' = OnCallbackRejected([ex EXCEPT !.cbPromise = "rejected",
                                             !.thrown = error], error)
    /\ UNCHANGED <<co, bulkVars, libVars>>

\* execute(): up to the await of the first attempt
CoCall ==
    /\ co.pc = "call"
    /\ co' = CallAttempt(co)
    /\ ex' = [ExIdle EXCEPT !.pc = "getDB"]
    /\ UNCHANGED <<bulkVars, libVars>>

\* return await this.executeWithTimeout(...)
CoAttemptResolved ==
    /\ co.pc = "attempt" /\ ex.outcome = "resolved"
    /\ co' = [co EXCEPT !.pc = "returned"]
    /\ ex' = ExIdle
    /\ UNCHANGED <<bulkVars, libVars>>

\* catch (error): throw lastError, or sleep before the next attempt
CoAttemptRejected ==
    /\ co.pc = "attempt" /\ ex.outcome = "rejected"
    /\ LET lastError == LastErrorOf(co.lastError, ex.error)
       IN co' = IF Surfaces(lastError, co.attempt, co.maxRetries)
                THEN [co EXCEPT !.pc = "thrown", !.lastError = lastError]
                ELSE [co EXCEPT !.pc = "sleep", !.lastError = lastError,
                                !.delays = Append(@, BackoffFactor(co.attempt))]
    /\ ex' = ExIdle
    /\ UNCHANGED <<bulkVars, libVars>>

\* the sleep is over: attempt++ and the next attempt
CoSleepDone ==
    /\ co.pc = "sleep"
    /\ co' = CallAttempt([co EXCEPT !.attempt = @ + 1])
    /\ ex' = [ExIdle EXCEPT !.pc = "getDB"]
    /\ UNCHANGED <<bulkVars, libVars>>

BulkUnused == opts = NoOpts /\ bulk = BulkIdle /\ wb = NoBatch /\ obs = NoObs

\* one executeWithTimeout call on its own
InitExec ==
    /\ BulkUnused
    /\ ex = [ExIdle EXCEPT !.pc = "getDB"]
    /\ co = [CoIdle EXCEPT !.pc = "direct"]
    /\ LibUnused

NextExec ==
    \/ ExecGetDBResolved
    \/ ExecGetDBRejected
    \/ TxComplete
    \/ TxErrorEvent
    \/ TxAbortEvent
    \/ TimerFires
    \/ CallbackResolves
    \/ CallbackRejects

SpecExec == InitExec /\ [][NextExec]_vars

\* the connection request settles, the engine ends the transaction with
\* complete or abort, and an armed timer fires
ExecFairness ==
    /\ WF_vars(ExecGetDBResolved \/ ExecGetDBRejected)
    /\ WF_vars(TxComplete \/ TxAbortEvent)
    /\ WF_vars(TimerFires)

SpecExecFair == InitExec /\ [][NextExec]_vars /\ ExecFairness

\* one execute call
InitCo ==
    /\ BulkUnused
    /\ ex = ExIdle
    /\ co \in { [CoIdle EXCEPT !.pc = "call", !.maxRetries = r] :
                  r \in 0..MaxTxRetries }
    /\ LibUnused

NextCo ==
    \/ CoCall
    \/ CoAttemptResolved
    \/ CoAttemptRejected
    \/ CoSleepDone
    \/ NextExec

SpecCo == InitCo /\ [][NextCo]_vars

----------------------------------------------------------------------------
(* Actions of one batch attempt followed to the end of its transaction *)

\* the arguments of a run of one batch without retries
BatchInputs ==
    { o \in BulkInputs :
        /\ ValidBulkInput(o)
        /\ o.n >= 1 /\ o.n <= o.batchSize /\ o.batchSize < MinBatchSize
        /\ o.hasRetries /\ o.retries = 0 /\ ~o.retryOnFail /\ ~o.progress }

InitBatch ==
    /\ opts \in BatchInputs
    /\ bulk = BulkIdle
    /\ wb = NoBatch
    /\ obs = NoObs
    /\ ex = ExIdle
    /\ co = CoIdle
    /\ LibUnused

\* the continuation of `await this.writeBatch(...)`; the closure of the
\* attempt lives on with the handlers of its requests and transaction
BatchContinuation ==
    /\ ContinuationReady
    /\ LET r == IF wb.promise = "resolved"
                THEN AfterResolved(bulk, obs, wb, opts)
                ELSE AfterRejected(bulk, obs, opts)
       IN bulk' = r.bulk /\ obs' = r.obs
    /\ UNCHANGED <<opts, wb, txVars, libVars>>

\* no request of the attempt is pending
NonePending(w) == \A j \in 1..w.len : w.req[j] # "pending"

\* a request of an active transaction succeeds
EngineRequestSuccess ==
    /\ wb.open /\ wb.tx = "active" /\ ~ContinuationReady /\ ~Bubbling(wb)
    /\ \E j \in 0..(wb.len - 1) :
          /\ MayComplete(wb, j)
          /\ wb' = OnRequestSuccess(wb, j)
    /\ UNCHANGED <<opts, bulk, obs, txVars, libVars>>

\* a request of an active transaction fails, or a pending request of a
\* transaction that is being aborted gets its error event; the error is not
\* handled (no preventDefault), so the transaction is aborted
EngineRequestError ==
    /\ wb.open /\ wb.tx \in {"active", "aborting"}
    /\ ~ContinuationReady /\ ~Bubbling(wb)
    /\ \E j \in 0..(wb.len - 1) :
          /\ MayComplete(wb, j)
          /\ wb.tx = "active" => j < FreeSpan
          /\ wb' = [OnRequestError(wb, j) EXCEPT !.tx = "aborting"]
    /\ UNCHANGED <<opts, bulk, obs, txVars, libVars>>

\* the engine gives the transaction up on its own (quota, a failed commit)
EngineAborts ==
    /\ wb.open /\ wb.tx = "active" /\ ~ContinuationReady /\ ~Bubbling(wb)
    /\ wb' = [wb EXCEPT !.tx = "aborting"]
    /\ UNCHANGED <<opts, bulk, obs, txVars, libVars>>

\* the abort event, after the error events of the pending requests
EngineAbortEvent ==
    /\ wb.open /\ wb.tx = "aborting" /\ ~ContinuationReady /\ ~Bubbling(wb)
    /\ NonePending(wb)
    /\ wb' = [OnTransactionAbort(wb) EXCEPT !.tx = "aborted"]
    /\ UNCHANGED <<opts, bulk, obs, txVars, libVars>>

\* the transaction commits and fires complete, for which the attempt has
\* no handler
EngineCommits ==
    /\ wb.open /\ wb.tx = "active" /\ ~ContinuationReady /\ ~Bubbling(wb)
    /\ NonePending(wb)
    /\ wb' = [wb EXCEPT !.tx = "committed"]
    /\ UNCHANGED <<opts, bulk, obs, txVars, libVars>>

NextBatch ==
    \/ BulkCall
    \/ GetDBResolved
    \/ BatchContinuation
    \/ EngineRequestSuccess
    \/ EngineRequestError
    \/ TransactionError
    \/ EngineAborts
    \/ EngineAbortEvent
    \/ EngineCommits
    \/ BatchTimeout

SpecBatch == InitBatch /\ [][NextBatch]_vars

----------------------------------------------------------------------------
(* Actions of two bulk calls in flight at once *)

\* the events the storage engine may dispatch to a batch attempt, as the
\* closures they leave
BatchEvents(w) ==
    IF ~w.open THEN {}
    ELSE IF Bubbling(w) THEN {OnTransactionError(w)}
    ELSE { OnRequestSuccess(w, j) :
             j \in { k \in 0..(w.len - 1) : MayComplete(w, k) } }
         \cup { [OnRequestError(w, j) EXCEPT !.tx = "aborting"] :
             j \in { k \in 0..(Min(w.len, FreeSpan) - 1) : MayComplete(w, k) } }
         \cup (IF ~w.txAbort
               THEN {[OnTransactionAbort(w) EXCEPT !.tx = "aborted"]} ELSE {})
         \cup (IF w.timer THEN {OnBatchTimeout(w)} ELSE {})

\* the continuation of a call's await is ready
RunContinuationReady(x) ==
    x.bulk.pc = "inflight" /\ x.wb.promise \in {"resolved", "rejected"}

\* the arguments of the two calls: bulkAdd without retries, so that no
\* call sleeps
PairInputs ==
    { o \in BulkInputs :
        /\ ValidBulkInput(o)
        /\ o.op = "add" /\ ~o.progress
        /\ o.hasRetries /\ o.retries = 0 /\ ~o.retryOnFail
        /\ o.n \in 2..SmallItems /\ o.batchSize \in {1, 2} }

InitPair ==
    /\ BulkUnused
    /\ ex = ExIdle
    /\ co = CoIdle
    \* per call: its arguments, its loop variables, the closure of its batch
    \* attempt and what it did
    /\ runs \in [1..2 -> { [opts |-> o, bulk |-> BulkIdle, wb |-> NoBatch,
                              obs |-> NoObs] : o \in PairInputs }]
    /\ kv = KvIdle
    /\ db = DbIdle

\* a call runs up to its first await
PairCall(r) ==
    /\ runs[r].bulk.pc = "call"
    /\ LET s == BulkStart(runs[r].opts)
       IN runs' = [runs EXCEPT ![r].bulk = s.bulk, ![r].obs = s.obs]
    /\ UNCHANGED <<bulkVars, txVars, kv, db>>

\* await this.db.getDB() of a call settles
PairGetDB(r) ==
    /\ runs[r].bulk.pc = "getDB"
    /\ \/ runs' = [runs EXCEPT ![r].wb = WriteBatchStart(runs[r].bulk.batchLen),
                               ![r].bulk.pc = "inflight",
                               ![r].obs.txOpened = @ + 1]
       \/ runs' = [runs EXCEPT ![r].wb = [NoBatch EXCEPT !.promise = "rejected",
                                                         !.reason = "connection"],
                               ![r].bulk.pc = "inflight"]
    /\ UNCHANGED <<bulkVars, txVars, kv, db>>

\* the continuation of a call's `await this.writeBatch(...)`
PairSettled(r) ==
    /\ RunContinuationReady(runs[r])
    /\ LET x == runs[r]
           s == IF x.wb.promise = "resolved"
                THEN AfterResolved(x.bulk, x.obs, x.wb, x.opts)
                ELSE AfterRejected(x.bulk, x.obs, x.opts)
       IN runs' = [runs EXCEPT ![r].bulk = s.bulk, ![r].obs = s.obs,
                               ![r].wb = NoBatch]
    /\ UNCHANGED <<bulkVars, txVars, kv, db>>

\* an event of the transaction or of a request of a call's batch attempt;
\* events are dispatched one at a time for the whole page, after the
\* continuations that are ready
PairEvent(r) ==
    /\ \A q \in 1..2 : ~RunContinuationReady(runs[q])
    /\ \A q \in 1..2 : q # r => ~Bubbling(runs[q].wb)
    /\ \E w \in BatchEvents(runs[r].wb) : runs' = [runs EXCEPT ![r].wb = w]
    /\ UNCHANGED <<bulkVars, txVars, kv, db>>

NextPair ==
    \/ \E r \in 1..2 : PairCall(r)
    \/ \E r \in 1..2 : PairGetDB(r)
    \/ \E r \in 1..2 : PairSettled(r)
    \/ \E r \in 1..2 : PairEvent(r)

SpecPair == InitPair /\ [][NextPair]_vars

----------------------------------------------------------------------------
(* Actions of a KVStore *)

InitKV ==
    /\ BulkUnused
    /\ ex = ExIdle
    /\ co = CoIdle
    /\ runs = NoRuns
    /\ kv = KvIdle
    /\ db = DbIdle

\* get / set / delete / clear of the store or of one of its namespaces, up
\* to the request it issues
KvCall ==
    /\ kv.pc = "idle"
    /\ \E op \in {"get", "set", "delete", "clear"}, prefix \in KvPrefixes,
          key \in KvKeys, value \in KvValues :
          kv' = [kv EXCEPT !.pc = "request", !.last = KvNoLast,
                           !.req = [op |-> op, prefix |-> prefix,
                                    key |-> IF op = "clear" THEN <<>> ELSE key,
                                    value |-> IF op = "set" THEN value ELSE ""]]
    /\ UNCHANGED <<bulkVars, txVars, runs, db>>

KvRequestSuccess ==
    /\ kv.pc = "request"
    /\ kv' = KvOnSuccess(kv)
    /\ UNCHANGED <<bulkVars, txVars, runs, db>>

KvRequestError ==
    /\ kv.pc = "request"
    /\ kv' = KvOnError(kv)
    /\ UNCHANGED <<bulkVars, txVars, runs, db>>

NextKV ==
    \/ KvCall
    \/ KvRequestSuccess
    \/ KvRequestError

SpecKV == InitKV /\ [][NextKV]_vars

----------------------------------------------------------------------------
(* Actions of a Database *)

DbInstances ==
    { [DbIdle EXCEPT !.version = v, !.migrations = m, !.throws = t] :
        v \in 1..MaxVersion, m \in SUBSET (1..MaxVersion), t \in 0..MaxVersion }

InitDb ==
    /\ BulkUnused
    /\ ex = ExIdle
    /\ co = CoIdle
    /\ runs = NoRuns
    /\ kv = KvIdle
    /\ db \in { d \in DbInstances : d.throws = 0 \/ d.throws \in d.migrations }

\* open(): the connection it already has, or indexedDB.open(name, version)
DbOpen ==
    /\ db.pc = "idle"
    /\ db' = IF db.opened
             THEN [db EXCEPT !.outcome = "resolved", !.error = "none"]
             ELSE [db EXCEPT !.pc = "request", !.outcome = "pending",
                             !.error = "none", !.upgraded = FALSE,
                             !.oldVersion = 0, !.ran = <<>>,
                             !.issued = @ + 1]
    /\ UNCHANGED <<bulkVars, txVars, runs, kv>>

DbUpgradeNeeded ==
    /\ db.pc = "request" /\ db.version > db.stored
    /\ db' = OnUpgradeNeeded(db)
    /\ UNCHANGED <<bulkVars, txVars, runs, kv>>

DbOpenSuccess ==
    /\ \/ db.pc = "upgraded"
       \/ db.pc = "request" /\ db.version = db.stored
    /\ db' = OnOpenSuccess(db)
    /\ UNCHANGED <<bulkVars, txVars, runs, kv>>

\* the open request fails: always when the version asked for is below the
\* stored one, and whenever the browser refuses
DbOpenError ==
    /\ db.pc = "request"
    /\ db' = OnOpenError(db)
    /\ UNCHANGED <<bulkVars, txVars, runs, kv>>

\* a second caller's getDB() / open() before the first open has completed:
\* this._db is still null, so indexedDB.open is called again
DbOpenAgain ==
    /\ db.pc \in {"request", "upgraded"} /\ db.second = "none"
    /\ db' = [db EXCEPT !.second = "pending", !.issued = @ + 1]
    /\ UNCHANGED <<bulkVars, txVars, runs, kv>>

\* the second request settles after the first, and like it: its
\* onsuccess stores its own connection in this._db
DbSecondSettles ==
    /\ db.pc = "idle" /\ db.second = "pending"
    /\ db' = IF db.opened
             THEN [db EXCEPT !.second = "resolved", !.handle = 2]
             ELSE [db EXCEPT !.second = "rejected", !.issued = @ - 1]
    /\ UNCHANGED <<bulkVars, txVars, runs, kv>>

\* close()
DbClose ==
    /\ db.pc = "idle" /\ db.opened /\ db.second # "pending"
    /\ db' = [db EXCEPT !.opened = FALSE, !.handle = 0, !.issued = 0,
                        !.second = "none"]
    /\ UNCHANGED <<bulkVars, txVars, runs, kv>>

\* new Database(options) for the same stored database
DbNew ==
    /\ db.pc = "idle" /\ ~db.opened /\ db.second # "pending"
    /\ \E d \in DbInstances :
          /\ d.throws = 0 \/ d.throws \in d.migrations
          /\ db' = [d EXCEPT !.stored = db.stored]
    /\ UNCHANGED <<bulkVars, txVars, runs, kv>>

NextDb ==
    \/ DbOpen
    \/ DbUpgradeNeeded
    \/ DbOpenSuccess
    \/ DbOpenError
    \/ DbOpenAgain
    \/ DbSecondSettles
    \/ DbClose
    \/ DbNew

SpecDb == InitDb /\ [][NextDb]_vars

----------------------------------------------------------------------------
(* Claims about a bulk run *)

Returned == bulk.pc = "done" /\ bulk.result.returned

\* the batches (slices) of the run that hold input index x
BatchesOf(x) ==
    { k \in 1..Len(obs.batches) :
        obs.batches[k][1] <= x /\ x < obs.batches[k][1] + obs.batches[k][2] }

\* C1: for every non-empty input, the result bulkAdd / bulkDelete returns has
\* success + failed = number of input items.
C1_SuccessPlusFailedIsLength ==
    (Returned /\ opts.n > 0) =>
        bulk.result.success + bulk.result.failed = opts.n

\* C2: the batches of a run are slices that together cover the input: every
\* input index lies in exactly one batch, none is skipped, none is in two.
C2_EveryIndexInExactlyOneBatch ==
    Returned => \A x \in 0..(opts.n - 1) : Cardinality(BatchesOf(x)) = 1

\* C7: during a run the current batch size stays within
\* [10, 2 * initial batch size].
C7_BatchSizeWithinBounds ==
    (opts.n > 0 /\ bulk.pc # "call") =>
        /\ bulk.currentBatchSize >= MinBatchSize
        /\ bulk.currentBatchSize <= 2 * opts.batchSize

\* C9: the `done` values passed to the progress callback never decrease,
\* never exceed `total`, and the last call reports done = total = items.
C9_ProgressMonotoneAndComplete ==
    LET p == obs.progressCalls
    IN /\ \A k \in 1..Len(p) : p[k][1] <= p[k][2] /\ p[k][2] = opts.n
       /\ \A k \in 1..(Len(p) - 1) : p[k][1] <= p[k + 1][1]
       /\ (Returned /\ opts.progress /\ opts.n > 0) =>
             (Len(p) > 0 /\ p[Len(p)][1] = opts.n)

\* C10: with an empty input bulkAdd / bulkDelete return {success: 0,
\* failed: 0}, open no transaction, obtain no connection and never call the
\* progress callback.
C10_EmptyInputShortCircuits ==
    opts.n = 0 =>
        /\ obs.txOpened = 0
        /\ obs.getDBCalls = 0
        /\ obs.progressCalls = <<>>
        /\ bulk.pc \in {"call", "done"}
        /\ (bulk.pc = "done" =>
              /\ bulk.result.returned
              /\ bulk.result.success = 0
              /\ bulk.result.failed = 0)

C10_Witness ==
    opts.n = 0 /\ opts.op = "delete" /\ opts.progress /\ Returned

\* the batch positions (0-based) whose request reported an error
ErrPositions(w) == { j \in 0..(w.len - 1) : w.req[j + 1] = "err" }

\* C11: when one item's add reports an error and nothing else goes wrong with
\* the batch (no timeout, no abort by the engine), the batch attempt settles
\* by resolving with exactly that item failed, at its position, and every
\* other item of the batch succeeded, whatever the position of the failing
\* item.
C11_OneFailureLeavesBatchMates ==
    (/\ opts.op = "add" /\ wb.open /\ wb.promise # "pending"
     /\ Cardinality(ErrPositions(wb)) = 1
     /\ ~wb.txAbort /\ wb.reason # "timeout")
    => /\ wb.promise = "resolved"
       /\ wb.failed = 1
       /\ wb.success = wb.len - 1
       /\ \E j \in ErrPositions(wb) : wb.failedIndices = <<j>>

\* C12: failedIndices of a returned result holds positions of the full
\* input, each failed item's index once: its entries are distinct indices of
\* the input and there are exactly `failed` of them.
C12_FailedIndicesAreInputPositions ==
    Returned =>
        LET f == bulk.result.failedIndices
        IN /\ Len(f) = bulk.result.failed
           /\ \A k \in 1..Len(f) : f[k] \in 0..(opts.n - 1)
           /\ \A k, l \in 1..Len(f) : k # l => f[k] # f[l]

\* C13: bulkAdd / bulkDelete never reject because of a per-item failure, a
\* batch timeout, a transaction abort or a failed connection request: when a
\* batch attempt settles, the run records its failures (the attempt's own
\* count when it resolved, the whole batch when it was rejected with no retry
\* left), or goes to sleep before a retry, and if the run ends there it ends
\* by returning a result.
C13_FailuresRecordedNotThrown ==
    [][ (bulk.pc = "inflight" /\ wb.promise \in {"resolved", "rejected"}) =>
          /\ bulk'.pc \in {"getDB", "sleep", "done"}
          /\ (bulk'.pc = "done" =>
                /\ bulk'.result.returned
                /\ bulk'.result.failed = bulk'.failedCount)
          /\ (wb.promise = "resolved" =>
                bulk'.failedCount = bulk.failedCount + wb.failed)
          /\ (wb.promise = "rejected" =>
                IF bulk.attempt + 1 > MaxRetriesOf(opts)
                THEN bulk'.failedCount = bulk.failedCount + bulk.batchLen
                ELSE bulk'.pc = "sleep" /\ bulk'.failedCount = bulk.failedCount)
      ]_vars

\* a run whose only batch was rejected (no key is null, yet both items are
\* failed) has returned
C13_Witness ==
    /\ Returned /\ opts.op = "delete" /\ opts.nullKeys = {}
    /\ opts.n = 2 /\ opts.batchSize = 2
    /\ bulk.result.failed = 2 /\ bulk.result.success = 0

\* C14: in a delete batch a null or undefined key is counted as failed at its
\* own position and never becomes a request to the store; when the requests
\* of the valid keys have all succeeded the batch is resolved with the valid
\* keys succeeded and the invalid ones failed, wherever the invalid keys are,
\* also when every key is invalid.
C14_NullKeysFailAlone ==
    (opts.op = "delete" /\ wb.open) =>
        LET nulls == BatchNulls(bulk, opts)
            k == Cardinality(nulls)
        IN /\ \A j \in 0..(wb.len - 1) : (wb.req[j + 1] = "null") <=> (j \in nulls)
           /\ \A j \in nulls : \E x \in 1..Len(wb.failedIndices) :
                                   wb.failedIndices[x] = j
           /\ ((\A j \in 0..(wb.len - 1) : wb.req[j + 1] \in {"null", "ok"})
                 /\ ~wb.txAbort /\ wb.reason # "timeout")
               => /\ wb.promise = "resolved"
                  /\ wb.resolveCalls = 1
                  /\ wb.success = wb.len - k
                  /\ wb.failed = k
                  /\ wb.failedIndices = SortedSeq(nulls)

\* bulkDelete([null, 'validKey']): the batch resolved with success 1, failed 1
C14_Witness ==
    /\ opts.op = "delete" /\ wb.open /\ wb.promise = "resolved"
    /\ wb.req = <<"null", "ok">>
    /\ wb.success = 1 /\ wb.failed = 1 /\ wb.failedIndices = <<0>>

\* C24: the progress callback is called exactly once per batch, after the
\* batch's terminal outcome (resolved, or failed with its retries exhausted)
\* and before the next batch starts, never between the retries of a batch,
\* and also for a failed batch.
C24_ProgressOncePerBatch ==
    (opts.progress /\ opts.n > 0 /\ bulk.pc # "call") =>
        /\ Len(obs.progressCalls) = Len(obs.outcomes)
        /\ Len(obs.progressCalls) =
              Len(obs.batches) - (IF bulk.pc = "done" THEN 0 ELSE 1)

\* a run of two batches, one of them failed after a retry, has reported
\* progress twice
C24_Witness ==
    /\ opts.progress /\ Returned
    /\ Len(obs.batches) = 2 /\ Len(obs.delays) >= 1
    /\ \E k \in 1..2 : obs.outcomes[k] = "failed"
    /\ Len(obs.progressCalls) = 2

\* the number of entries of the sequence f that are x
Count(f, x) == Cardinality({ k \in 1..Len(f) : f[k] = x })

\* the batch positions (0-based) whose request has the result r
Positions(w, r) == { j \in 0..(w.len - 1) : w.req[j + 1] = r }

\* C25: a batch attempt that resolves accounts for every item of the batch:
\* success + failed of its result is the batch length and there is one
\* failed index per failed item, also when two or more items fail.
C25_ResolvedBatchAccountsForAll ==
    (wb.open /\ wb.promise = "resolved") =>
        /\ wb.success + wb.failed = wb.len
        /\ Len(wb.failedIndices) = wb.failed
        /\ \A j \in 0..(wb.len - 1) :
              Count(wb.failedIndices, j) =
                  IF wb.req[j + 1] \in {"err", "null"} THEN 1 ELSE 0

\* a delete batch with an invalid key and a failed delete has resolved
C25_Witness ==
    /\ wb.open /\ wb.promise = "resolved"
    /\ wb.req = <<"null", "err">> /\ wb.failed = 2 /\ wb.success = 0

C27_ExhaustedBatchFailsOnce ==
    [][ /\ (bulk.pc = "inflight" /\ wb.promise = "rejected"
              /\ bulk.attempt + 1 > MaxRetriesOf(opts)) =>
              /\ bulk'.failedCount = bulk.failedCount + bulk.batchLen
              /\ bulk'.successCount = bulk.successCount
              /\ bulk'.failedIndices =
                    bulk.failedIndices \o Range(bulk.batchStart, bulk.batchLen)
              /\ bulk'.currentBatchSize =
                    Max(bulk.currentBatchSize \div 2, MinBatchSize)
        /\ Returned' =>
              \A k \in 1..Len(obs'.outcomes) :
                 obs'.outcomes[k] = "failed" =>
                    \A x \in obs'.batches[k][1]
                              ..(obs'.batches[k][1] + obs'.batches[k][2] - 1) :
                       Count(bulk'.result.failedIndices, x) = 1
      ]_vars

\* C28: in bulkAdd the batch size grows only after a batch that resolved on
\* its first attempt, by 10 capped at 2 * the configured size; no other
\* step, in particular no failed or retried batch, increases it.
C28_GrowthOnlyAfterFirstAttemptSuccess ==
    [][ (bulk.pc # "call" /\ bulk'.currentBatchSize > bulk.currentBatchSize) =>
          /\ opts.op = "add"
          /\ bulk.pc = "inflight" /\ wb.promise = "resolved"
          /\ bulk.attempt = 0
          /\ bulk'.currentBatchSize =
                Min(bulk.currentBatchSize + GrowStep, 2 * opts.batchSize)
      ]_vars

\* C29: the batch attempts of a run are strictly sequential: at most one
\* attempt is in flight, and a new attempt (a retry or the next batch) is
\* started only by the run's first step, by the continuation of the previous
\* attempt's settled promise, or after the sleep that follows a rejection.
C29_AttemptsSequential ==
    [][ /\ obs.getDBCalls - Len(obs.outcomes) - Len(obs.delays) \in {0, 1}
        /\ (wb.promise = "pending" => bulk.pc = "inflight")
        /\ (obs'.getDBCalls # obs.getDBCalls) =>
              /\ obs'.getDBCalls = obs.getDBCalls + 1
              /\ \/ bulk.pc = "call"
                 \/ bulk.pc = "sleep"
                 \/ bulk.pc = "inflight" /\ wb.promise \in {"resolved", "rejected"}
              /\ obs.getDBCalls = Len(obs.outcomes) + Len(obs.delays)
                    + (IF bulk.pc = "inflight" THEN 1 ELSE 0)
      ]_vars

\* the third attempt of a run is about to start after two settled ones
C29_Witness ==
    /\ bulk.pc = "getDB" /\ obs.getDBCalls = 3
    /\ Len(obs.outcomes) + Len(obs.delays) = 2
    /\ Len(obs.batches) = 2

\* C30: a batch is attempted at most (retries + 1) times, the delay before
\* its k-th retry is the base delay * 2^(k - 1), and with no retries
\* configured each batch is attempted exactly once.
C30_BulkRetryCountAndDelay ==
    /\ (bulk.pc \in {"getDB", "inflight", "sleep"} =>
          bulk.attempt <= MaxRetriesOf(opts))
    /\ obs.getDBCalls <= Len(obs.batches) * (MaxRetriesOf(opts) + 1)
    /\ (bulk.pc = "sleep" =>
          /\ bulk.attempt >= 1
          /\ obs.delays[Len(obs.delays)] = 2 ^ (bulk.attempt - 1))
    /\ (MaxRetriesOf(opts) = 0 =>
          /\ obs.delays = <<>>
          /\ (bulk.pc = "done" => obs.getDBCalls = Len(obs.batches)))

\* with retryOnFail a batch sleeps before its second retry
C30_Witness ==
    /\ opts.retryOnFail /\ ~opts.hasRetries
    /\ bulk.pc = "sleep" /\ bulk.attempt = 2
    /\ obs.delays = <<1, 2>>

\* C33: a batch attempt that timed out is handled like any failed attempt -
\* retried after a sleep while retries remain, then counted as failed item
\* by item - and it does not end the run: while items of the input lie
\* after the batch, the next batch is attempted
C33_TimeoutDoesNotEndRun ==
    [][(/\ bulk.pc = "inflight" /\ wb.promise = "rejected"
        /\ wb.reason = "timeout" /\ bulk' # bulk)
       => IF bulk.attempt + 1 <= MaxRetriesOf(opts)
          THEN bulk'.pc = "sleep"
          ELSE /\ bulk'.failedCount = bulk.failedCount + bulk.batchLen
               /\ (bulk.batchStart + bulk.batchLen < opts.n
                      => bulk'.pc = "getDB")]_vars

\* C35: every bulk run terminates: each batch of the loop starts at a
\* position strictly above the one before it, and once every batch attempt
\* settles the call returns its result
C35_RunTerminates ==
    /\ [](\A k \in 1..(Len(obs.batches) - 1) :
             obs.batches[k][1] < obs.batches[k + 1][1])
    /\ <>Returned

C35_Witness ==
    /\ Returned
    /\ Len(obs.batches) >= 3
    /\ Len(obs.delays) >= 1
    /\ "failed" \in {obs.outcomes[k] : k \in 1..Len(obs.outcomes)}

\* C38: a retry of a failed batch submits the same items as the failed
\* attempt: the batch is the slice taken when the loop reached it, every
\* attempt issues one request per item of that slice, and the shrink of the
\* batch size before a retry (x0.7, floor, at least 10, from the second
\* retry on) changes the size only
C38_RetryResubmitsSameItems ==
    [][/\ ((bulk.pc = "sleep" /\ bulk' # bulk) =>
              /\ bulk'.pc = "getDB"
              /\ bulk'.batchStart = bulk.batchStart
              /\ bulk'.batchLen = bulk.batchLen
              /\ bulk'.i = bulk.i
              /\ obs'.batches = obs.batches
              /\ bulk'.currentBatchSize =
                    IF bulk.attempt > 1
                    THEN Max((bulk.currentBatchSize * 7) \div 10, 10)
                    ELSE bulk.currentBatchSize)
       /\ ((bulk'.pc \in {"getDB", "inflight", "sleep"}) =>
              obs'.batches[Len(obs'.batches)]
                 = <<bulk'.batchStart, bulk'.batchLen>>)
       /\ (wb'.open => wb'.len = bulk'.batchLen)]_vars

C38_Witness ==
    /\ bulk.pc = "inflight" /\ wb.open /\ bulk.attempt = 2
    /\ opts.batchSize = 11 /\ bulk.currentBatchSize = 10
    /\ wb.len = 11 /\ bulk.batchStart = 0

\* C37: an item is counted as succeeded only if the transaction of its
\* batch committed: an attempt does not resolve with successes before its
\* transaction has completed, and when the transaction is aborted after all
\* requests succeeded the result of the run counts no success
C37_SuccessOnlyIfCommitted ==
    /\ ((wb.promise = "resolved" /\ wb.success > 0) => wb.tx = "committed")
    /\ ((Returned /\ wb.tx = "aborted") => bulk.result.success = 0)

\* C39: one batch attempt calls resolve or reject at most once in all:
\* after a reject no request callback calls resolve, and after a resolve
\* no transaction event calls reject
C39_AttemptSettlesOnce ==
    wb.resolveCalls + wb.rejectCalls <= 1

----------------------------------------------------------------------------
(* Claims about executeWithTimeout and execute *)

\* C3: one run of executeWithTimeout delivers exactly one outcome: resolve or
\* reject is invoked at most once in total, whatever the order of the timer,
\* the transaction's events and the callback's settlement.
C3_AtMostOneSettleCall == ex.resolveCalls + ex.rejectCalls <= 1

\* C4: if the engine eventually fires complete or abort and an armed timer
\* eventually fires, the promise of executeWithTimeout is eventually resolved
\* or rejected.
C4_EventuallySettled == <>(ex.outcome # "pending")

\* C5: with a promise-returning callback the executor resolves once the
\* promise has resolved and the transaction has completed, in either order,
\* and never before both.
C5_ResolvesWhenBothArrived ==
    ex.kind = "async" =>
        /\ (ex.outcome = "resolved" =>
               ex.cbPromise = "resolved" /\ ex.tx = "complete")
        /\ (ex.cbPromise = "resolved" /\ ex.tx = "complete"
              /\ ~ex.txError /\ ~ex.timerFired
               => ex.outcome = "resolved")

\* C6: when the timer fires before an outcome was delivered the executor
\* aborts the transaction and rejects with a TransactionTimeoutError; so a
\* promise-returning callback that stays pending, with no error or abort of
\* the transaction, still has the timer armed until that rejection.
C6_TimeoutRejects ==
    /\ ex.timerFired =>
          /\ ex.outcome = "rejected"
          /\ ex.error = TimeoutError
          /\ ex.abortCalls >= 1
    /\ (ex.kind = "async" /\ ex.cbPromise = "pending" /\ ex.outcome = "pending"
          /\ ~ex.txError /\ ex.tx # "aborted")
        => ex.timer

\* C8 as stated: execute with retries = N calls the attempt, and hence the
\* callback, at most N + 1 times, and when attempt k is the first success
\* the callback has been invoked exactly k + 1 times.
C8_CallbackCallsExact ==
    /\ co.invocations <= co.maxRetries + 1
    /\ co.callbackCalls <= co.maxRetries + 1
    /\ (co.pc = "returned" => co.callbackCalls = co.attempt + 1)

\* C8 as amended: execute with retries = N calls executeWithTimeout at most
\* N + 1 times and the callback at most once per call; when attempt k is the
\* first success executeWithTimeout has been called exactly k + 1 times, and
\* no call follows a success or a surfaced error.
C8_AttemptsBounded ==
    /\ co.invocations <= co.maxRetries + 1
    /\ co.callbackCalls <= co.invocations
    /\ (co.pc \in {"attempt", "sleep", "returned", "thrown"} =>
            co.invocations = co.attempt + 1)
    /\ (co.pc \in {"returned", "thrown"} => ex.pc = "idle")

C8_Witness ==
    /\ co.pc = "returned" /\ co.maxRetries = 2
    /\ co.attempt = 1 /\ co.invocations = 2 /\ co.callbackCalls = 2

\* C15: a timed-out attempt is retryable: execute surfaces a
\* TransactionTimeoutError only when no attempt remains (attempt >= retries).
C15_TimeoutIsRetried ==
    (co.pc = "thrown" /\ co.lastError = TimeoutError) =>
        co.attempt >= co.maxRetries

\* the keywords of a constraint / uniqueness violation
ConstraintWords == {"constraint", "duplicate", "unique"}

\* C16: an aborted attempt whose message matches a constraint / uniqueness
\* pattern is never retried, whatever else the message contains: execute
\* never goes to sleep before another attempt with such a lastError.
C16_ConstraintNeverRetried ==
    co.pc = "sleep" =>
        ~(co.lastError.type = "aborted"
            /\ co.lastError.msg \cap ConstraintWords # {})

\* C17 as stated: when execute gives up, it throws the very value the last
\* attempt rejected with, never a newly constructed wrapper.
C17_LastErrorUnwrapped ==
    [][ (co.pc = "attempt" /\ ex.outcome = "rejected" /\ co'.pc = "thrown")
          => co'.lastError = ex.error ]_vars

\* C17 as amended: when execute gives up, it throws what the last attempt
\* rejected with: that very error when it is an Error, and
\* new Error(String(value)) when it is some other value; never the error
\* of an earlier attempt.
C17_LastErrorOfLastAttempt ==
    [][ (co.pc = "attempt" /\ ex.outcome = "rejected" /\ co'.pc = "thrown")
          => /\ (ex.error # ThrownValue => co'.lastError = ex.error)
             /\ (ex.error = ThrownValue => co'.lastError = WrappedError) ]_vars

\* execute gave up after three attempts with the error of the callback
C17_Witness ==
    /\ co.pc = "thrown" /\ co.attempt = 2 /\ co.invocations = 3
    /\ co.lastError = CallbackError

\* C18: if the callback throws synchronously, the executor has called abort
\* on the transaction and rejected, once, with the thrown error (wrapped in
\* an Error when it is not one), and nothing settles the promise again.
C18_SyncThrowAbortsThenRejects ==
    ex.kind = "throw" =>
        /\ ex.outcome = "rejected"
        /\ ex.error = Wrap(ex.thrown)
        /\ ex.abortCalls >= 1
        /\ ex.rejectCalls = 1 /\ ex.resolveCalls = 0

\* C19: an abort the callback requested through context.abort() is reported
\* as a TransactionAbortedError, whether the callback then returns, returns
\* a promise or throws: no other outcome is delivered.
C19_ExplicitAbortReportedAborted ==
    (ex.explicitAbort /\ ex.outcome # "pending") =>
        /\ ex.outcome = "rejected"
        /\ ex.error.type = "aborted"

\* C20: with a synchronous callback the promise is resolved (with the
\* callback's return value) only when the transaction has completed, and
\* only if no timeout, error or abort outcome was delivered before; a
\* completion with no earlier outcome resolves it.
C20_SyncResolvesAtCompletion ==
    ex.kind = "sync" =>
        /\ (ex.outcome = "resolved" =>
              /\ ex.tx = "complete"
              /\ ex.rejectCalls = 0
              /\ ~ex.timerFired)
        /\ ((ex.tx = "complete" /\ ex.rejectCalls = 0) =>
              ex.outcome = "resolved")

C20_Witness ==
    /\ ex.kind = "sync" /\ ex.tx = "complete" /\ ex.outcome = "resolved"
    /\ ex.resolveCalls = 1 /\ ~ex.explicitAbort

\* C31: in execute the first attempt runs without a sleep, the sleep before
\* retry k (after failed attempt k - 1) is the base delay times 2^(k - 1),
\* and an error that is surfaced is surfaced without a sleep of its own
C31_BackoffDoubles ==
    /\ \A k \in 1..Len(co.delays) : co.delays[k] = 2 ^ (k - 1)
    /\ (co.pc \in {"attempt", "returned", "thrown"} =>
            Len(co.delays) = co.invocations - 1)
    /\ (co.pc = "sleep" => Len(co.delays) = co.invocations)

C31_Witness ==
    co.pc = "thrown" /\ co.invocations = 3 /\ co.delays = <<1, 2>>

\* C32: an attempt rejected with an error that is neither a timeout error
\* nor an aborted error is retried whenever attempts remain, whatever the
\* classification of retryable errors says of it, and is thrown to the
\* caller only when attempt >= retries
C32_UnknownErrorsRetried ==
    [][(/\ co.pc = "attempt" /\ ex.outcome = "rejected"
        /\ ex.error.type \notin {"timeout", "aborted"}
        /\ co' # co)
       => IF co.attempt >= co.maxRetries
          THEN co'.pc = "thrown" /\ co'.lastError = Wrap(ex.error)
          ELSE co'.pc = "sleep" /\ co'.attempt = co.attempt]_vars

C32_Witness ==
    /\ co.pc = "sleep" /\ co.attempt = 1 /\ co.maxRetries = 2
    /\ co.lastError = CallbackError /\ ~IsRetryableError(co.lastError)

\* C36: in the executor the timer stays armed as long as no outcome has
\* been delivered: whenever the promise of an opened transaction is still
\* pending, the timer can still fire
C36_TimerArmedWhileUnsettled ==
    (ex.pc = "open" /\ ex.outcome = "pending") => ex.timer

----------------------------------------------------------------------------
(* Claims about two calls at once, the KVStore and Database.open *)

\* a call of the pair has returned
PairReturned(r) == runs[r].bulk.pc = "done" /\ runs[r].bulk.result.returned

\* a step of the pair touches the locals of one call only
OneRunPerStep == \E r \in 1..2 : runs'[3 - r] = runs[3 - r]

\* every item of a call that returned is counted in its result
PairAccounted(r) ==
    PairReturned(r) =>
        runs[r].bulk.result.success + runs[r].bulk.result.failed = runs[r].opts.n

\* C21: two bulk calls in flight at once do not affect each other: every
\* step changes the batch size, the counters and the batch position of one
\* call only, and each call returns with all of its own items counted as
\* succeeded or failed, whatever the interleaving
C21_RunsIndependentAndComplete ==
    [][OneRunPerStep /\ \A r \in 1..2 : PairAccounted(r)']_vars

\* C22: a get that completed returns what the last completed set, delete
\* or clear left under its key: the value itself after set(key, value),
\* undefined for a key never set, deleted or cleared
C22_GetReturnsValueSet ==
    (kv.last.op = "get" /\ kv.last.ok) =>
        kv.last.result = kv.written[GetFullKey(kv.last.prefix, kv.last.key)]

\* C23: the upgrade of an open at schema version V calls every registered
\* migration above the old version and up to V, in ascending order
\* (with old version 0 when the database is first created)
C23_MigrationsInRangeAscending ==
    (db.upgraded /\ db.throws = 0) =>
        db.ran = SortedSeq({ v \in db.migrations :
                               v > db.oldVersion /\ v <= db.version })

\* the full keys that carry the prefix of a namespace
Carrying(prefix) == { GetFullKey(prefix, k) : k \in KvKeys }

\* C34: a clear() through a namespace deletes exactly the records whose
\* keys carry the prefix of that namespace and leaves every other record
\* of the object store as it was; and a set of a key through one namespace
\* leaves what a get of that key returns through the root store and through
\* every other namespace as it was
C34_NamespacesAreFramed ==
    [][(kv.pc = "request" /\ kv'.last.ok)
       => /\ (kv.req.op = "clear" /\ kv.req.prefix # <<>>
                => \A f \in FullKeys :
                      kv'.store[f] = IF f \in Carrying(kv.req.prefix)
                                     THEN Undefined ELSE kv.store[f])
          /\ (kv.req.op = "set"
                => /\ kv'.store[GetFullKey(kv.req.prefix, kv.req.key)].value
                         = kv.req.value
                   /\ \A q \in KvPrefixes \ {kv.req.prefix} :
                         kv'.store[GetFullKey(q, kv.req.key)]
                            = kv.store[GetFullKey(q, kv.req.key)])]_vars

C34_Witness ==
    /\ kv.last.op = "clear" /\ kv.last.ok /\ kv.last.prefix = <<"n">>
    /\ kv.store[<<"a">>] # Undefined
    /\ kv.store[<<"m", ":", "a">>] # Undefined
    /\ kv.store[<<"n", ":", "a">>] = Undefined

\* C40: the connection is opened at most once per Database instance until
\* it is closed: callers that ask for it before the first open has
\* completed share one open request and one handle
C40_OneOpenPerInstance ==
    /\ db.issued <= 1
    /\ (db.second = "resolved" => db.handle = 1)

====
